---------------------------- MODULE Spec2Model ----------------------------
(***************************************************************************)
(* Model of the track-filtering and playlist-assembly pipeline of          *)
(* streamlit_app.py: the saved-tracks paginator (fetch_all_saved_tracks)   *)
(* behind its st.cache_data wrapper,                                       *)
(* the keyword / audio-feature filter (filter_tracks) with its batched     *)
(* audio-feature lookup, and the playlist builder                          *)
(* (create_playlist_and_add_tracks).  Each function is a small state       *)
(* machine whose steps are its remote requests; every function has its own *)
(* specification (SpecFetch, SpecFilter, SpecBuild, SpecGenre).            *)
(*                                                                         *)
(* Python values: an optional value is a sequence of length 0 (None, or a  *)
(* missing dict key) or 1 (the value); a str is a sequence of one-letter   *)
(* strings; a float attribute is an integer number of its smallest step.   *)
(* The saved items are well-formed API objects ("artists" a list, "album"  *)
(* a dict) and st.session_state holds the authenticated client.            *)
(***************************************************************************)
EXTENDS Integers, Sequences, FiniteSets, TLC

VARIABLES
    \* fetch_all_saved_tracks
    fpc,            \* "idle" | "loop" | "done" | "raised"
    script,         \* the remote's answers to the requests of the current call
    offset,         \* local offset
    all_items,      \* local all_items
    page_requests,  \* the requests issued by the current call
    cache,          \* the store of the st.cache_data wrapper: key -> list
    sp_key,         \* the cache key of the argument of the current call
    served,         \* how the current call is served: "none" | "miss" | "hit"
    fetched,        \* the list the current call returned
    ncalls,         \* the number of calls so far
    \* filter_tracks
    pc,             \* "idle" | "lookup" | "done" | "raised"
    tracks, keyword, min_bpm, max_bpm, min_dance, min_valence,   \* arguments
    kw,             \* local keyword, after normalize_text
    track_ids,      \* local track_ids
    lk_i,           \* loop variable i of the audio-feature loop
    features_map,   \* local features_map: id -> audio-feature dict
    lookups,        \* the id chunks sent to sp.audio_features so far
    filtered,       \* the returned list
    \* create_playlist_and_add_tracks and its caller
    bpc,            \* "idle" | "append" | "done" | "raised"
    track_uris,     \* argument
    add_i,          \* loop variable i of the append loop
    remote,         \* the remote playlist: None, or Some([id, tracks])
    build_requests, \* the requests issued so far
    surfaced,       \* what the caller shows: None, Some(success or error)
    \* genre filter
    gpc, g_tracks, g_selected, g_mode, g_out

fetchVars  == <<fpc, script, offset, all_items, page_requests,
                cache, sp_key, served, fetched, ncalls>>
filterVars == <<pc, tracks, keyword, min_bpm, max_bpm, min_dance, min_valence,
                kw, track_ids, lk_i, features_map, lookups, filtered>>
buildVars  == <<bpc, track_uris, add_i, remote, build_requests, surfaced>>
genreVars  == <<gpc, g_tracks, g_selected, g_mode, g_out>>
vars       == <<fetchVars, filterVars, buildVars, genreVars>>

---------------------------------------------------------------------------
(* Python values *)

None == <<>>
Some(x) == <<x>>
Val(o) == o[1]

Min(a, b) == IF a < b THEN a ELSE b

\* s[i : i + n] (0-based i)
Slice(s, i, n) == SubSeq(s, i + 1, Min(i + n, Len(s)))

---------------------------------------------------------------------------
(* fetch_all_saved_tracks, as the app calls it: the function of lines 60-73 *)
(* behind the st.cache_data wrapper of line 59                              *)

limit == 50

\* Bound: the number of requests of one call the remote may answer with a
\* non-empty page; every later request gets an answer without items.
MaxPages == 4

\* Bound: the number of calls of the function in one run of the server
MaxCalls == 3

\* What one request can return: Some(n), a dict whose "items" holds n items,
\* or None, a dict without the "items" key.
EndAnswers  == {Some(0), None}
PageAnswers == {Some(23), Some(limit)} \cup EndAnswers

RECURSIVE SeqsUpTo(_, _)
SeqsUpTo(S, n) ==
    IF n = 0 THEN {<<>>}
    ELSE LET shorter == SeqsUpTo(S, n - 1)
         IN  shorter \cup {Append(s, x) : s \in {t \in shorter : Len(t) = n - 1}, x \in S}

\* The cache keys the argument sp can hash to: the wrapper keys its store by
\* the hash of the argument, and the app builds a client on every rerun
\* (line 216), so two calls may or may not have the same key.
ClientKeys == {"sp1", "sp2"}

\* sp.current_user_saved_tracks(limit, offset) answered with answer: saved
\* item number off + i is the library entry at that absolute position.
SavedTracksResponse(answer, lim, off) ==
    IF answer = None THEN [href |-> "me/tracks"]
    ELSE [href |-> "me/tracks", items |-> [i \in 1..Min(Val(answer), lim) |-> off + i]]

\* the answers the remote can give to the next request of the current call
CurrentAnswers == IF Len(page_requests) < MaxPages THEN PageAnswers ELSE EndAnswers

\* res.get("items", [])
ItemsOf(res) == IF "items" \in DOMAIN res THEN res.items ELSE <<>>

\* faulty variant: the offset advanced by the size of the page received
NextOffsetMutant(off, lim, items) == off + Len(items)
\* offset += limit
NextOffset(off, lim, items) == off + lim

\* line 59: the wrapper holds a result for the key of the argument
Cached(store, key) == key \in DOMAIN store

FetchIdle ==
    /\ offset = 0 /\ all_items = <<>> /\ page_requests = <<>>
    /\ cache = <<>> /\ sp_key = None /\ served = "none" /\ fetched = None
    /\ ncalls = 0

\* the server has started: the function was never called and the store of the
\* wrapper (in memory, no persist argument) is empty
InitFetch ==
    /\ fpc = "idle"
    /\ script = <<>>
    /\ FetchIdle

\* line 59, the key of the argument is not stored: the function runs, lines
\* 62-64
FetchCall ==
    /\ fpc \in {"idle", "done", "raised"}
    /\ ncalls < MaxCalls
    /\ \E key \in ClientKeys :
           /\ ~Cached(cache, key)
           /\ sp_key' = Some(key)
    /\ script' = <<>>
    /\ fpc' = "loop"
    /\ served' = "miss"
    /\ ncalls' = ncalls + 1
    /\ offset' = 0
    /\ all_items' = <<>>
    /\ page_requests' = <<>>
    /\ fetched' = None
    /\ UNCHANGED cache
    /\ UNCHANGED <<filterVars, buildVars, genreVars>>

\* line 59, the key of the argument is stored: the wrapper returns the stored
\* list and the function does not run
FetchCached ==
    /\ fpc \in {"idle", "done", "raised"}
    /\ ncalls < MaxCalls
    /\ \E key \in ClientKeys :
           /\ Cached(cache, key)
           /\ sp_key' = Some(key)
           /\ fetched' = Some(cache[key])
    /\ fpc' = "done"
    /\ served' = "hit"
    /\ ncalls' = ncalls + 1
    /\ offset' = 0
    /\ all_items' = <<>>
    /\ page_requests' = <<>>
    /\ script' = <<>>
    /\ UNCHANGED cache
    /\ UNCHANGED <<filterVars, buildVars, genreVars>>

\* one iteration of the while loop, lines 66-72; on the empty page the return
\* of line 73, which the wrapper stores under the key of the argument
FetchPage ==
    /\ fpc = "loop"
    /\ \E answer \in CurrentAnswers :
         LET res   == SavedTracksResponse(answer, limit, offset)
             items == ItemsOf(res)
         IN  /\ script' = Append(script, answer)
             /\ page_requests' = Append(page_requests, [limit |-> limit, offset |-> offset])
             /\ IF items = <<>>
                THEN /\ fpc' = "done"
                     /\ fetched' = Some(all_items)
                     /\ cache' = (Val(sp_key) :> all_items) @@ cache
                     /\ UNCHANGED <<offset, all_items>>
                ELSE /\ fpc' = "loop"
                     /\ all_items' = all_items \o items
                     /\ offset' = NextOffset(offset, limit, items)
                     /\ UNCHANGED <<fetched, cache>>
    /\ UNCHANGED <<sp_key, served, ncalls>>
    /\ UNCHANGED <<filterVars, buildVars, genreVars>>

\* the request raises (transport / auth error): the exception leaves the
\* function and the wrapper stores nothing
FetchRaise ==
    /\ fpc = "loop"
    /\ fpc' = "raised"
    /\ page_requests' = Append(page_requests, [limit |-> limit, offset |-> offset])
    /\ UNCHANGED <<script, offset, all_items, cache, sp_key, served, fetched, ncalls>>
    /\ UNCHANGED <<filterVars, buildVars, genreVars>>

NextFetch == FetchCall \/ FetchCached \/ FetchPage \/ FetchRaise

---------------------------------------------------------------------------
(* str *)

\* str.lower() of one letter
LowerChar(c) ==
    CASE c = "A" -> "a"
      [] c = "B" -> "b"
      [] c = "C" -> "c"
      [] OTHER   -> c

\* str.lower()
Lower(s) == [i \in 1..Len(s) |-> LowerChar(s[i])]

\* normalize_text, lines 76-77: (s or "").lower(), s an optional str
normalize_text(s) == Lower(IF s = None THEN <<>> ELSE Val(s))

\* k in s
IsSubstr(k, s) ==
    \E i \in 0..(Len(s) - Len(k)) : SubSeq(s, i + 1, i + Len(k)) = k

\* sep.join(parts)
RECURSIVE Join(_, _)
Join(sep, parts) ==
    IF parts = <<>> THEN <<>>
    ELSE IF Len(parts) = 1 THEN parts[1]
    ELSE parts[1] \o sep \o Join(sep, Tail(parts))

---------------------------------------------------------------------------
(* filter_tracks *)

\* the chunk size of the audio-feature loop, line 93
ChunkSize == 100

\* line 88: the ids of the items that have a track with an id
HasId(item) == item.track # None /\ Val(item.track).id # None
track_ids_of(ts) ==
    LET withId == SelectSeq(ts, HasId)
    IN  [i \in 1..Len(withId) |-> Val(Val(withId[i].track).id)]

\* lines 96-98: the entries of one response recorded in features_map; a null
\* entry and an entry without id are skipped, a later entry for an id replaces
\* an earlier one
Recorded(afs) == {j \in 1..Len(afs) : afs[j] # None /\ Val(afs[j]).id # None}
MergeFeatures(m, afs) ==
    LET ids == {Val(Val(afs[j]).id) : j \in Recorded(afs)}
        last(id) == CHOOSE j \in Recorded(afs) :
                        /\ Val(Val(afs[j]).id) = id
                        /\ \A l \in Recorded(afs) : Val(Val(afs[l]).id) = id => l <= j
    IN  [id \in DOMAIN m \cup ids |-> IF id \in ids THEN Val(afs[last(id)]) ELSE m[id]]

\* features_map.get(track.get("id"))
FeaturesOf(m, track) ==
    IF track.id # None /\ Val(track.id) \in DOMAIN m THEN Some(m[Val(track.id)]) ELSE None

\* lines 104-109
\* faulty variant: the operands of `in` exchanged
MatchMutant(k, track) ==
    LET name    == normalize_text(track.name)
        artists == normalize_text(Some(Join(<<",", " ">>,
                       [i \in 1..Len(track.artists) |-> track.artists[i].name])))
        album   == normalize_text(track.album.name)
    IN  IsSubstr(name, k) \/ IsSubstr(artists, k) \/ IsSubstr(album, k)
Match(k, track) ==
    LET name    == normalize_text(track.name)
        artists == normalize_text(Some(Join(<<",", " ">>,
                       [i \in 1..Len(track.artists) |-> track.artists[i].name])))
        album   == normalize_text(track.album.name)
    IN  IsSubstr(k, name) \/ IsSubstr(k, artists) \/ IsSubstr(k, album)

\* lines 119-130: TRUE when one of the four tests skips the track
\* faulty variant: a tempo equal to min_bpm rejected
FailsBoundMutant(af, minb, maxb, mind, minv) ==
    \/ minb # None /\ af.tempo # None /\ Val(af.tempo) <= Val(minb)
    \/ maxb # None /\ af.tempo # None /\ Val(af.tempo) > Val(maxb)
    \/ mind # None /\ af.danceability # None /\ Val(af.danceability) < Val(mind)
    \/ minv # None /\ af.valence # None /\ Val(af.valence) < Val(minv)
FailsBound(af, minb, maxb, mind, minv) ==
    \/ minb # None /\ af.tempo # None /\ Val(af.tempo) < Val(minb)
    \/ maxb # None /\ af.tempo # None /\ Val(af.tempo) > Val(maxb)
    \/ mind # None /\ af.danceability # None /\ Val(af.danceability) < Val(mind)
    \/ minv # None /\ af.valence # None /\ Val(af.valence) < Val(minv)

\* lines 113-117: what the loop does with a matching track that has no entry in
\* features_map
\* faulty variant: a track without features kept only when no bound is given
KeepWithoutFeaturesMutant(minb, maxb, mind, minv) ==
    minb = None /\ maxb = None /\ mind = None /\ minv = None
KeepWithoutFeatures(minb, maxb, mind, minv) == TRUE

\* lines 101-132: whether the loop appends the item's track
Keep(item, k, m, minb, maxb, mind, minv) ==
    /\ item.track # None
    /\ Match(k, Val(item.track))
    /\ LET af == FeaturesOf(m, Val(item.track))
       IN  IF af = None THEN KeepWithoutFeatures(minb, maxb, mind, minv)
           ELSE ~FailsBound(Val(af), minb, maxb, mind, minv)

\* lines 100-134: the loop over the items
Scan(ts, k, m, minb, maxb, mind, minv) ==
    LET kept == SelectSeq(ts, LAMBDA item : Keep(item, k, m, minb, maxb, mind, minv))
    IN  [i \in 1..Len(kept) |-> Val(kept[i].track)]

\* lines 82-84
\* faulty variant: no early return
EmptyKeywordMutant(k) == FALSE
EmptyKeyword(k) == k = <<>>

\* line 94
\* faulty variant: a slice one id too long
ChunkMutant(ids, i) == Slice(ids, i, ChunkSize + 1)
Chunk(ids, i) == Slice(ids, i, ChunkSize)

(* The inputs of filter_tracks and the remote audio-feature data *)

\* Bound: the length of the track lists enumerated item by item
MaxLen == 2

AudioFeatures(id, tempo, danceability, valence) ==
    [id |-> id, tempo |-> tempo, danceability |-> danceability, valence |-> valence]

\* What sp.audio_features returns for one id: all features (1), null (2), a
\* dict without tempo and valence (3), a dict without id (4); for the ids of
\* the long lists, null or one of two feature sets.
FeatureDB(id) ==
    CASE id = 1 -> Some(AudioFeatures(Some(1), Some(120), Some(5), Some(5)))
      [] id = 2 -> None
      [] id = 3 -> Some(AudioFeatures(Some(3), None, Some(5), None))
      [] id = 4 -> Some(AudioFeatures(None, Some(120), Some(5), Some(5)))
      [] OTHER  -> CASE id % 3 = 0 -> None
                     [] id % 3 = 1 -> Some(AudioFeatures(Some(id), Some(120), Some(5), Some(5)))
                     [] OTHER      -> Some(AudioFeatures(Some(id), Some(90), Some(2), Some(8)))

\* sp.audio_features(chunk): one entry per id, in the order of the ids
AudioFeaturesResponse(chunk) == [j \in 1..Len(chunk) |-> FeatureDB(chunk[j])]

Track(id, name, artists, album) ==
    [id |-> id, name |-> name,
     artists |-> [i \in 1..Len(artists) |-> [name |-> artists[i]]],
     album |-> [name |-> album],
     uri |-> IF id = None THEN None ELSE Some(Val(id) + 1000)]

SavedItem(track) == [track |-> Some(track)]
ItemNoTrack == [track |-> None]

Pool ==
    { ItemNoTrack,
      SavedItem(Track(Some(1), Some(<<"A", "b">>), <<>>, None)),
      SavedItem(Track(Some(2), None, << <<"B">>, <<"c">> >>, Some(<<>>))),
      SavedItem(Track(Some(3), Some(<<"c">>), << <<"c">> >>, Some(<<"A">>))),
      SavedItem(Track(Some(4), Some(<<"c", "a">>), <<>>, None)),
      SavedItem(Track(None, Some(<<"a">>), << <<"b">> >>, Some(<<"c">>))) }

Keywords ==
    { None, Some(<<>>), Some(<<"a">>), Some(<<"B">>), Some(<<"b", ",", " ", "c">>) }

\* every bound: absent, met with equality by the feature sets above, or failed
MinBpms     == {None, Some(120), Some(121)}
MaxBpms     == {None, Some(120), Some(119)}
MinDances   == {None, Some(5), Some(6)}
MinValences == {None, Some(5), Some(6)}

\* The long lists: two items without an id, then n items with the ids
\* 11 .. 10 + n, every second one matching the keyword "a".
LongItem(i) ==
    SavedItem(Track(Some(10 + i), Some(IF i % 2 = 0 THEN <<"a">> ELSE <<"c">>), <<>>, None))
LongTracks(n) ==
    <<ItemNoTrack, SavedItem(Track(None, Some(<<"a">>), <<>>, None))>>
        \o [i \in 1..n |-> LongItem(i)]
LongLens == {ChunkSize - 1, ChunkSize, ChunkSize + 1, 150, 2 * ChunkSize, 2 * ChunkSize + 50}

FilterIdle ==
    /\ kw = <<>> /\ track_ids = <<>> /\ lk_i = 0 /\ features_map = <<>>
    /\ lookups = <<>> /\ filtered = <<>>

InitFilter ==
    /\ pc = "idle"
    /\ \/ /\ tracks \in SeqsUpTo(Pool, MaxLen)
          /\ keyword \in Keywords
          /\ min_bpm \in MinBpms /\ max_bpm \in MaxBpms
          /\ min_dance \in MinDances /\ min_valence \in MinValences
       \/ /\ tracks \in {LongTracks(n) : n \in LongLens}
          /\ keyword \in {Some(<<>>), Some(<<"A">>)}
          /\ min_bpm \in {None, Some(120)} /\ max_bpm = None
          /\ min_dance \in {None, Some(5)} /\ min_valence = None
    /\ FilterIdle

\* lines 81-92: the call, up to the audio-feature loop
FilterCall ==
    /\ pc = "idle"
    /\ kw' = normalize_text(keyword)
    /\ IF EmptyKeyword(kw')
       THEN /\ pc' = "done"
            /\ filtered' = <<>>
            /\ UNCHANGED <<track_ids, lk_i, features_map>>
       ELSE /\ pc' = "lookup"
            /\ filtered' = <<>>
            /\ track_ids' = track_ids_of(tracks)
            /\ lk_i' = 0
            /\ features_map' = <<>>
    /\ UNCHANGED <<tracks, keyword, min_bpm, max_bpm, min_dance, min_valence, lookups>>
    /\ UNCHANGED <<fetchVars, buildVars, genreVars>>

\* lines 93-98: one iteration of the audio-feature loop
Lookup ==
    /\ pc = "lookup"
    /\ lk_i < Len(track_ids)
    /\ LET chunk == Chunk(track_ids, lk_i)
       IN  /\ lookups' = Append(lookups, chunk)
           /\ features_map' = MergeFeatures(features_map, AudioFeaturesResponse(chunk))
    /\ lk_i' = lk_i + ChunkSize
    /\ UNCHANGED <<pc, tracks, keyword, min_bpm, max_bpm, min_dance, min_valence,
                   kw, track_ids, filtered>>
    /\ UNCHANGED <<fetchVars, buildVars, genreVars>>

\* line 95 raises (transport / auth error): the exception leaves filter_tracks
LookupRaise ==
    /\ pc = "lookup"
    /\ lk_i < Len(track_ids)
    /\ pc' = "raised"
    /\ lookups' = Append(lookups, Chunk(track_ids, lk_i))
    /\ UNCHANGED <<tracks, keyword, min_bpm, max_bpm, min_dance, min_valence,
                   kw, track_ids, lk_i, features_map, filtered>>
    /\ UNCHANGED <<fetchVars, buildVars, genreVars>>

\* lines 100-134: the loop over the items, and the return
ScanTracks ==
    /\ pc = "lookup"
    /\ lk_i >= Len(track_ids)
    /\ pc' = "done"
    /\ filtered' = Scan(tracks, kw, features_map, min_bpm, max_bpm, min_dance, min_valence)
    /\ UNCHANGED <<tracks, keyword, min_bpm, max_bpm, min_dance, min_valence,
                   kw, track_ids, lk_i, features_map, lookups>>
    /\ UNCHANGED <<fetchVars, buildVars, genreVars>>

NextFilter == FilterCall \/ Lookup \/ LookupRaise \/ ScanTracks

---------------------------------------------------------------------------
(* create_playlist_and_add_tracks, and the handler that calls it *)

\* Bound: the length of the uri lists enumerated uri by uri
MaxUris == 3

\* the chunk size of the append loop, line 141
AppendSize == 100

\* the id the service gives the created playlist
NewPlaylistId == "pl1"

\* The uri lists: every short list over two uris and None (a track without
\* "uri"), and long lists of distinct (1) or repeating (2) uris.
LongUris(n, pattern) ==
    [i \in 1..n |-> Some(IF pattern = 1 THEN 1000 + i ELSE 1000 + (i % 3))]
UriLens == {AppendSize - 1, AppendSize, AppendSize + 1, 2 * AppendSize, 2 * AppendSize + 50}
UriLists ==
    SeqsUpTo({None, Some(1001), Some(1002)}, MaxUris)
        \cup {LongUris(n, p) : n \in UriLens, p \in {1, 2}}

\* what leaves the function when a request raises: the client's exception, as
\* raised (no statement of lines 137-143 or 279-285 catches or wraps it)
RaisedBy(request) == [kind |-> "exception", raised_by |-> request]

\* lines 284-285: what the handler shows after the function returned
ShownOnSuccess(playlist) == [kind |-> "success", id |-> playlist.id]

\* faulty variant: a step one too long
AddIndexMutant(i) == i + AppendSize + 1
\* the step of range(0, len(track_uris), 100)
AddIndex(i) == i + AppendSize

\* the effect of a successful playlist_add_items on the playlist's tracks
Appended(old, chunk) == old \o chunk

\* faulty variant: the exception swallowed and the loop continued
AfterFailedAddMutant(i) == "append"
\* where control goes when playlist_add_items raises: out of the function
AfterFailedAdd(i) == "raised"

BuildIdle ==
    /\ add_i = 0 /\ remote = None /\ build_requests = <<>> /\ surfaced = None

InitBuild ==
    /\ bpc = "idle"
    /\ track_uris \in UriLists
    /\ BuildIdle

\* lines 138-139, the create request succeeds
CreatePlaylist ==
    /\ bpc = "idle"
    /\ bpc' = "append"
    /\ remote' = Some([id |-> NewPlaylistId, tracks |-> <<>>])
    /\ build_requests' = Append(build_requests, [op |-> "create", ok |-> TRUE])
    /\ add_i' = 0
    /\ UNCHANGED <<track_uris, surfaced>>
    /\ UNCHANGED <<fetchVars, filterVars, genreVars>>

\* line 138 raises: nothing was created
CreateRaise ==
    /\ bpc = "idle"
    /\ bpc' = "raised"
    /\ build_requests' = Append(build_requests, [op |-> "create", ok |-> FALSE])
    /\ surfaced' = Some(RaisedBy("user_playlist_create"))
    /\ UNCHANGED <<track_uris, add_i, remote>>
    /\ UNCHANGED <<fetchVars, filterVars, genreVars>>

\* lines 141-142, one iteration, the append request succeeds
AddItems ==
    /\ bpc = "append"
    /\ add_i < Len(track_uris)
    /\ LET chunk == Slice(track_uris, add_i, AppendSize)
       IN  /\ build_requests' = Append(build_requests,
                  [op |-> "append", ok |-> TRUE, pid |-> Val(remote).id, uris |-> chunk])
           /\ remote' = Some([Val(remote) EXCEPT !.tracks = Appended(@, chunk)])
    /\ add_i' = AddIndex(add_i)
    /\ UNCHANGED <<bpc, track_uris, surfaced>>
    /\ UNCHANGED <<fetchVars, filterVars, genreVars>>

\* line 142 raises: the playlist is left as it is
AddItemsRaise ==
    /\ bpc = "append"
    /\ add_i < Len(track_uris)
    /\ bpc' = AfterFailedAdd(add_i)
    /\ build_requests' = Append(build_requests,
           [op |-> "append", ok |-> FALSE, pid |-> Val(remote).id,
            uris |-> Slice(track_uris, add_i, AppendSize)])
    /\ surfaced' = Some(RaisedBy("playlist_add_items"))
    /\ UNCHANGED <<track_uris, add_i, remote>>
    /\ UNCHANGED <<fetchVars, filterVars, genreVars>>

\* line 143, and lines 284-285 of the handler
BuildReturn ==
    /\ bpc = "append"
    /\ add_i >= Len(track_uris)
    /\ bpc' = "done"
    /\ surfaced' = Some(ShownOnSuccess(Val(remote)))
    /\ UNCHANGED <<track_uris, add_i, remote, build_requests>>
    /\ UNCHANGED <<fetchVars, filterVars, genreVars>>

NextBuild == CreatePlaylist \/ CreateRaise \/ AddItems \/ AddItemsRaise \/ BuildReturn

---------------------------------------------------------------------------
(* Genre filter.  The source file holds no genre filter; this part follows  *)
(* the design document, sections 4.2 and 4.3.                               *)

\* the genre tags of the artists of each track; a track the map does not
\* hold has no genre
TrackGenreMap ==
    (1 :> {}) @@ (2 :> {<<"A">>}) @@ (3 :> {<<"a">>, <<"b">>}) @@ (4 :> {<<"b">>})
GenreTrackIds == 1..5
GenreChoices == {<<"a">>, <<"B">>}

GenresOf(map, id) == IF id \in DOMAIN map THEN {Lower(g) : g \in map[id]} ELSE {}

\* faulty variant: the two modes exchanged
GenreKeepMutant(genres, selected, mode) ==
    /\ genres # {}
    /\ IF mode = "ALL" THEN genres \cap selected # {} ELSE selected \subseteq genres
GenreKeep(genres, selected, mode) ==
    /\ genres # {}
    /\ IF mode = "ANY" THEN genres \cap selected # {} ELSE selected \subseteq genres

filter_by_genre(ts, map, selected, mode) ==
    LET sel == {Lower(g) : g \in selected}
    IN  SelectSeq(ts, LAMBDA id : GenreKeep(GenresOf(map, id), sel, mode))

GenreIdle == g_out = <<>>

InitGenre ==
    /\ gpc = "idle"
    /\ g_tracks \in SeqsUpTo(GenreTrackIds, MaxLen)
    /\ g_selected \in (SUBSET GenreChoices) \ {{}}
    /\ g_mode \in {"ANY", "ALL"}
    /\ GenreIdle

GenreFilter ==
    /\ gpc = "idle"
    /\ gpc' = "done"
    /\ g_out' = filter_by_genre(g_tracks, TrackGenreMap, g_selected, g_mode)
    /\ UNCHANGED <<g_tracks, g_selected, g_mode>>
    /\ UNCHANGED <<fetchVars, filterVars, buildVars>>

NextGenre == GenreFilter

---------------------------------------------------------------------------
(* Specifications: one per function; the other functions are not running *)

FetchOff  == fpc = "off" /\ script = <<>> /\ FetchIdle
FilterOff == /\ pc = "off" /\ tracks = <<>> /\ keyword = None
             /\ min_bpm = None /\ max_bpm = None /\ min_dance = None /\ min_valence = None
             /\ FilterIdle
BuildOff  == bpc = "off" /\ track_uris = <<>> /\ BuildIdle
GenreOff  == gpc = "off" /\ g_tracks = <<>> /\ g_selected = {} /\ g_mode = "ANY" /\ GenreIdle

FetchStart  == InitFetch /\ FilterOff /\ BuildOff /\ GenreOff
FilterStart == FetchOff /\ InitFilter /\ BuildOff /\ GenreOff
BuildStart  == FetchOff /\ FilterOff /\ InitBuild /\ GenreOff
GenreStart  == FetchOff /\ FilterOff /\ BuildOff /\ InitGenre

SpecFetch  == FetchStart /\ [][NextFetch]_vars
SpecFilter == FilterStart /\ [][NextFilter]_vars
SpecBuild  == BuildStart /\ [][NextBuild]_vars
SpecGenre  == GenreStart /\ [][NextGenre]_vars

---------------------------------------------------------------------------
(* Properties *)

\* ceil(n / d)
CeilDiv(n, d) == (n + d - 1) \div d

RECURSIVE Flatten(_)
\* the lists of ss, one after the other
Flatten(ss) == IF ss = <<>> THEN <<>> ELSE Head(ss) \o Flatten(Tail(ss))

\* the first index after s at which b holds x; Len(b) + 1 when there is none
FirstAfter(b, s, x) ==
    IF \E i \in (s + 1)..Len(b) : b[i] = x
    THEN CHOOSE i \in (s + 1)..Len(b) : b[i] = x /\ \A j \in (s + 1)..(i - 1) : b[j] # x
    ELSE Len(b) + 1

RECURSIVE MatchEnd(_, _, _, _, _)
\* the index of b at which a[lo..hi] ends when its elements are found in b one
\* after the other, each as early as possible, after index s
MatchEnd(a, lo, hi, b, s) ==
    IF lo > hi THEN s
    ELSE IF s > Len(b) THEN s
    ELSE IF lo = hi THEN FirstAfter(b, s, a[lo])
    ELSE LET mid == (lo + hi) \div 2
         IN  MatchEnd(a, mid + 1, hi, b, MatchEnd(a, lo, mid, b, s))

\* a is b with some elements left out: the elements of a are found in b, in
\* the order of a, at increasing indices
IsSubseq(a, b) == MatchEnd(a, 1, Len(a), b, 0) <= Len(b)

\* the tracks of the input items, in input order
InputTracks ==
    LET present == SelectSeq(tracks, LAMBDA item : item.track # None)
    IN  [i \in 1..Len(present) |-> Val(present[i].track)]

\* the keyword of the call, lowercased
LoweredKeyword == Lower(IF keyword = None THEN <<>> ELSE Val(keyword))

OptionalText(o) == IF o = None THEN <<>> ELSE Val(o)

\* the lowercased keyword is a substring of the lowercased name, of the
\* lowercased comma-joined artist names, or of the lowercased album name
KeywordIn(t) ==
    \/ IsSubstr(LoweredKeyword, Lower(OptionalText(t.name)))
    \/ IsSubstr(LoweredKeyword,
                Lower(Join(<<",", " ">>, [i \in 1..Len(t.artists) |-> t.artists[i].name])))
    \/ IsSubstr(LoweredKeyword, Lower(OptionalText(t.album.name)))

\* a track matches the keyword: the keyword is not empty (an empty keyword
\* selects nothing, lines 82-84) and is in one of the three texts
MatchesKeyword(t) == LoweredKeyword # <<>> /\ KeywordIn(t)

\* the audio-feature data the lookup gives for the track: None when the track
\* has no id, or the response holds null or an entry without id for it
FeatureData(t) ==
    IF t.id = None THEN None
    ELSE LET af == FeatureDB(Val(t.id))
         IN  IF af = None \/ Val(af).id = None THEN None ELSE af

\* a bound that is present and whose feature value is present and beyond it
FailsEnforcedBound(t) ==
    LET af == FeatureData(t)
    IN  /\ af # None
        /\ \/ min_bpm # None /\ Val(af).tempo # None /\ Val(Val(af).tempo) < Val(min_bpm)
           \/ max_bpm # None /\ Val(af).tempo # None /\ Val(Val(af).tempo) > Val(max_bpm)
           \/ /\ min_dance # None /\ Val(af).danceability # None
              /\ Val(Val(af).danceability) < Val(min_dance)
           \/ /\ min_valence # None /\ Val(af).valence # None
              /\ Val(Val(af).valence) < Val(min_valence)

\* C1: the result of filter_tracks is an order-preserving subsequence of the
\* tracks of the input items, and every track of the result has the
\* lowercased keyword in its lowercased name, comma-joined artist names or
\* album name.
FilterResultIsMatchingSubsequence ==
    pc = "done" =>
        /\ IsSubseq(filtered, InputTracks)
        /\ \A j \in 1..Len(filtered) : KeywordIn(filtered[j])

FilterResultWitness ==
    /\ pc = "done"
    /\ keyword = Some(<<"B">>)
    /\ Len(tracks) = 2
    /\ tracks[1].track # None /\ tracks[2].track # None
    /\ filtered = <<Val(tracks[2].track)>>

\* C2: a track that matches the keyword and has no audio-feature data is in
\* the result, whatever the four bounds are.
MissingFeaturesNeverExclude ==
    pc = "done" =>
        \A i \in 1..Len(InputTracks) :
            MatchesKeyword(InputTracks[i]) /\ FeatureData(InputTracks[i]) = None
                => \E j \in 1..Len(filtered) : filtered[j] = InputTracks[i]

MissingFeaturesWitness ==
    /\ pc = "done"
    /\ min_bpm = Some(121) /\ max_bpm = Some(119) /\ min_dance = Some(6) /\ min_valence = Some(6)
    /\ \E j \in 1..Len(filtered) : filtered[j].id = Some(2)
    /\ \E i \in 1..Len(InputTracks) :
           InputTracks[i].id = Some(1) /\ MatchesKeyword(InputTracks[i])
    /\ \A j \in 1..Len(filtered) : filtered[j].id # Some(1)

\* C3: a bound is enforced on a keyword-matching track only when the bound
\* and the track's feature value are both present; the result is exactly the
\* keyword-matching tracks that fail no enforced bound, a value equal to its
\* bound being accepted.
ResultIsMatchesWithinBounds ==
    pc = "done" =>
        filtered = SelectSeq(InputTracks, LAMBDA t : MatchesKeyword(t) /\ ~FailsEnforcedBound(t))

WithinBoundsWitness ==
    /\ pc = "done"
    /\ min_bpm = Some(120) /\ max_bpm = Some(120) /\ min_dance = Some(5) /\ min_valence = Some(5)
    /\ Len(InputTracks) = 2
    /\ InputTracks[1].id = Some(1) /\ InputTracks[2].id = Some(3)
    /\ MatchesKeyword(InputTracks[1]) /\ MatchesKeyword(InputTracks[2])
    /\ filtered = InputTracks

\* C4: filter_tracks called with the empty keyword returns the empty list,
\* for every list of tracks and every choice of bounds.
EmptyKeywordGivesEmptyList ==
    pc = "done" /\ keyword = Some(<<>>) => filtered = <<>>

EmptyKeywordWitness ==
    /\ pc = "done"
    /\ keyword = Some(<<>>)
    /\ InputTracks # <<>>
    /\ min_bpm = None /\ max_bpm = None /\ min_dance = None /\ min_valence = None
    /\ filtered = <<>>

\* the ids of the tracks of the input that have one, in input order
InputIds ==
    LET withId == SelectSeq(InputTracks, LAMBDA t : t.id # None)
    IN  [i \in 1..Len(withId) |-> Val(withId[i].id)]

\* C10: for a non-empty keyword and n track ids, filter_tracks issues
\* ceil(n/100) lookup calls of 1 to 100 ids each, the chunks in call order
\* being the id list; a null entry of a response is recorded as absent.
LookupsChunkTheIds ==
    /\ \A k \in 1..Len(lookups) :
           /\ lookups[k] = SubSeq(InputIds, 100 * (k - 1) + 1, Min(100 * k, Len(InputIds)))
           /\ Len(lookups[k]) \in 1..100
    /\ pc = "done" /\ LoweredKeyword # <<>> =>
           /\ Len(lookups) = CeilDiv(Len(InputIds), 100)
           /\ Flatten(lookups) = InputIds
           /\ Len(InputIds) = 150 => Len(lookups) = 2 /\ Len(lookups[2]) = 50
           /\ \A i \in 1..Len(InputIds) :
                  LET id == InputIds[i]
                  IN  IF FeatureDB(id) = None THEN id \notin DOMAIN features_map
                      ELSE Val(FeatureDB(id)).id # None
                               => id \in DOMAIN features_map
                                  /\ features_map[id] = Val(FeatureDB(id))

LookupsWitness ==
    /\ pc = "done"
    /\ Len(InputIds) = 150
    /\ Len(lookups) = 2 /\ Len(lookups[1]) = 100 /\ Len(lookups[2]) = 50
    /\ \E id \in DOMAIN features_map : TRUE
    /\ \E i \in 1..Len(InputIds) : InputIds[i] \notin DOMAIN features_map

\* the index of the first request of the script answered with no item
\* (Len(script) + 1: the request after the script)
FirstEmpty ==
    LET empty == {k \in 1..Len(script) : script[k] = None \/ script[k] = Some(0)}
    IN  IF empty = {} THEN Len(script) + 1
        ELSE CHOOSE k \in empty : \A j \in empty : k <= j

\* the items of the library the k-th request returns when it is made at
\* offset 50 * (k - 1)
ScriptedPage(k) == [i \in 1..Val(script[k]) |-> 50 * (k - 1) + i]

\* the list a run of the function returns for the answers the remote gave
ScriptedResult == Flatten([k \in 1..(FirstEmpty - 1) |-> ScriptedPage(k)])

AppendRequests == SelectSeq(build_requests, LAMBDA r : r.op = "append")

\* C6: one create request, before any append; then ceil(n/100) append
\* requests, in input order, of at most 100 uris each; when all succeed the
\* playlist holds the uris in input order (250 uris: 100, 100 and 50).
BuildCreatesThenAppendsInOrder ==
    /\ \A k \in 1..Len(build_requests) : (build_requests[k].op = "create") <=> (k = 1)
    /\ \A k \in 1..Len(AppendRequests) :
           /\ AppendRequests[k].uris
                  = SubSeq(track_uris, 100 * (k - 1) + 1, Min(100 * k, Len(track_uris)))
           /\ Len(AppendRequests[k].uris) \in 1..100
    /\ bpc = "done" =>
           /\ Len(AppendRequests) = CeilDiv(Len(track_uris), 100)
           /\ remote # None /\ Val(remote).tracks = track_uris
           /\ Len(track_uris) = 250 =>
                  [k \in 1..Len(AppendRequests) |-> Len(AppendRequests[k].uris)]
                      = <<100, 100, 50>>

BuildWitness ==
    /\ bpc = "done"
    /\ Len(track_uris) = 250
    /\ Len(build_requests) = 4
    /\ Val(remote).tracks = track_uris

\* C7: when the append request for chunk k fails, the playlist still exists
\* and holds exactly chunks 1..k-1 in input order; the failed chunk is not
\* sent again and no later chunk is sent.
FailedAppendLeavesEarlierChunks ==
    /\ \A k \in 1..Len(build_requests) : ~build_requests[k].ok => k = Len(build_requests)
    /\ Len(AppendRequests) > 0 /\ ~AppendRequests[Len(AppendRequests)].ok =>
           /\ bpc = "raised"
           /\ remote # None
           /\ Val(remote).id = NewPlaylistId
           /\ Val(remote).tracks = SubSeq(track_uris, 1, 100 * (Len(AppendRequests) - 1))

FailedAppendWitness ==
    /\ bpc = "raised"
    /\ Len(track_uris) = 250
    /\ Len(AppendRequests) = 2
    /\ ~AppendRequests[2].ok
    /\ Len(Val(remote).tracks) = 100

\* C8 (as claimed): a failed append is surfaced as an error that carries the
\* playlist id and the number of tracks appended so far.
PartialStateIsSurfaced ==
    bpc = "raised" /\ remote # None =>
        /\ surfaced # None
        /\ "playlist_id" \in DOMAIN Val(surfaced)
        /\ Val(surfaced).playlist_id = Val(remote).id
        /\ "appended" \in DOMAIN Val(surfaced)
        /\ Val(surfaced).appended = Len(Val(remote).tracks)

\* the lowercased genre tags the map gives a track
TrackGenres(id) ==
    IF id \in DOMAIN TrackGenreMap THEN {Lower(g) : g \in TrackGenreMap[id]} ELSE {}
SelectedGenres == {Lower(g) : g \in g_selected}

\* C9: the genre filter excludes every track with an empty genre set; under
\* ANY its output is the tracks whose genre set intersects the selected
\* genres, under ALL the tracks whose genre set is a superset of them, in
\* input order.
GenreFilterByMode ==
    gpc = "done" =>
        /\ \A j \in 1..Len(g_out) : TrackGenres(g_out[j]) # {}
        /\ g_mode = "ANY" =>
               g_out = SelectSeq(g_tracks, LAMBDA id : TrackGenres(id) \cap SelectedGenres # {})
        /\ g_mode = "ALL" =>
               g_out = SelectSeq(g_tracks, LAMBDA id : SelectedGenres \subseteq TrackGenres(id))

GenreWitness ==
    /\ gpc = "done"
    /\ g_mode = "ALL"
    /\ g_selected = {<<"a">>, <<"B">>}
    /\ g_tracks = <<2, 3>>
    /\ g_out = <<3>>

=============================================================================
